---- MODULE Spec2Model ----
(* State-machine model of shenfun/forms/arguments.py: the Expr term        *)
(* algebra over BasisFunction handles, and the Function / Array wrappers   *)
(* over shared numeric storage.                                            *)
(*                                                                         *)
(* Arrays are sequences indexed from 1; component numbers, term numbers    *)
(* and the `indices` entries keep Python's numbering from 0, so component  *)
(* i of the code is row i+1 of the model.                                  *)
EXTENDS Integers, Sequences, FiniteSets, TLC

\* the Expr algebra: the program's Exprs, the arrays holding their scales,
\* where each Expr came from, the last operation, the operations so far, and
\* the operand of the operation that returned e
VARIABLES slots, sheap, prov, last, steps, esrc

\* Function and Array: the program's arrays, the storage they refer to, the
\* last operation, the operations so far
VARIABLES objs, mem, flast, fsteps

\* handles: the program's BasisFunction handles, the class and role each
\* was constructed with, the last operation, the operations so far
VARIABLES hnd, horig, hlast, hsteps

\* the Basis factory: the call made and what came of it
VARIABLES bcall

exprvars == <<slots, sheap, prov, last, steps, esrc>>

funvars == <<objs, mem, flast, fsteps>>

hvars == <<hnd, horig, hlast, hsteps>>

basvars == <<bcall>>

vars == <<slots, sheap, prov, last, steps, esrc, objs, mem, flast, fsteps,
          hnd, horig, hlast, hsteps, bcall>>

(* ------------------------------------------------------------------ *)
(* Bounds                                                              *)
(* ------------------------------------------------------------------ *)

\* number of operations in one run
MaxSteps == 3

\* number of terms of an explicitly constructed Expr
MaxT == 2

\* number of Function / Array operations in one run
MaxFunSteps == 3

\* number of handle operations in one run
MaxHandleSteps == 3

(* ------------------------------------------------------------------ *)
(* Python values                                                       *)
(* ------------------------------------------------------------------ *)

\* Python's None, and the absence of an object
None == [t |-> "none", v |-> 0]

IsNone(x) == x.t = "none"

\* a numpy array passed as an argument
Arr(a) == [t |-> "arr", v |-> a]

Null == [null |-> TRUE]

Num(n) == [t |-> "num", v |-> n]

Str == [t |-> "str", v |-> 0]

Tup(s) == [t |-> "tuple", v |-> s]

\* isinstance(a, Number)
IsNumber(x) == x.t = "num"

\* isinstance(a, tuple)
IsTuple(x) == x.t = "tuple"

(* ------------------------------------------------------------------ *)
(* Function spaces (external interface)                                *)
(* ------------------------------------------------------------------ *)

\* S, W: two scalar tensor-product spaces (S complex to complex, W real to
\* complex on 3 points); V: the vector space over S
SpaceTable ==
  [S |-> [ndim |-> 2, rank |-> 1, nc |-> 1, sub |-> <<>>,
          inshape |-> <<2>>, indtype |-> "D", outshape |-> <<2>>, outdtype |-> "D"],
   W |-> [ndim |-> 2, rank |-> 1, nc |-> 1, sub |-> <<>>,
          inshape |-> <<3>>, indtype |-> "d", outshape |-> <<2>>, outdtype |-> "D"],
   V |-> [ndim |-> 2, rank |-> 2, nc |-> 2, sub |-> <<"S", "S">>,
          inshape |-> <<2>>, indtype |-> "D", outshape |-> <<2>>, outdtype |-> "D"]]

SpaceIds == DOMAIN SpaceTable

SpaceNdim(sp) == SpaceTable[sp].ndim

SpaceRank(sp) == SpaceTable[sp].rank

SpaceNumComponents(sp) == SpaceTable[sp].nc

\* space[i] is defined for 0 <= i < num_components() of a vector space
SpaceHasItem(sp, i) == i >= 0 /\ i < Len(SpaceTable[sp].sub)

SpaceGetItem(sp, i) == SpaceTable[sp].sub[i + 1]

(* ------------------------------------------------------------------ *)
(* BasisFunction handles                                               *)
(* ------------------------------------------------------------------ *)

BasisFunction(space, argument, index) ==
  [kind |-> "BasisFunction", space |-> space, argument |-> argument, index |-> index]

TestFunction(space, index) ==
  [kind |-> "TestFunction", space |-> space, argument |-> 0, index |-> index]

TrialFunction(space, index) ==
  [kind |-> "TrialFunction", space |-> space, argument |-> 1, index |-> index]

\* the handle part of a Function: BasisFunction.__init__(self, space, 2)
FunctionHandle(space, index) ==
  [kind |-> "Function", space |-> space, argument |-> 2, index |-> index]

\* isinstance(basis, BasisFunction)
IsBasisFunction(b) ==
  b.kind \in {"BasisFunction", "TestFunction", "TrialFunction", "Function"}

BasisRank(b) == SpaceRank(b.space)

\* handle[i] with every class re-wrapped as a TestFunction
HandleGetItemAsTest(b, i) ==
  IF BasisRank(b) = 2 /\ SpaceHasItem(b.space, i)
  THEN [ok |-> TRUE, v |-> TestFunction(SpaceGetItem(b.space, i), i)]
  ELSE [ok |-> FALSE, v |-> Null]

\* handle[i]: [ok, v]; a Function falls back to plain array indexing, which
\* yields no handle, when the space is scalar or i is out of range
HandleGetItem(b, i) ==
  IF b.kind = "Function"
  THEN IF BasisRank(b) = 2 /\ i \in 0..(SpaceNumComponents(b.space) - 1)
       THEN [ok |-> TRUE, v |-> FunctionHandle(SpaceGetItem(b.space, i), i)]
       ELSE [ok |-> FALSE, v |-> Null]
  ELSE IF BasisRank(b) = 2 /\ SpaceHasItem(b.space, i)
       THEN [ok |-> TRUE,
             v |-> CASE b.kind = "TestFunction" -> TestFunction(SpaceGetItem(b.space, i), i)
                     [] b.kind = "TrialFunction" -> TrialFunction(SpaceGetItem(b.space, i), i)
                     [] OTHER -> BasisFunction(SpaceGetItem(b.space, i), b.argument, i)]
       ELSE [ok |-> FALSE, v |-> Null]

(* ------------------------------------------------------------------ *)
(* Array helpers (numpy)                                               *)
(* ------------------------------------------------------------------ *)

\* shape of a two-dimensional array
Shape2(m) == <<Len(m), Len(m[1])>>

\* shape[:2] of a three-dimensional array
Shape3Lead(t) == <<Len(t), Len(t[1])>>

\* np.prod(m.shape) of a two-dimensional array
Size2(m) == Len(m) * Len(m[1])

\* np.concatenate((x, y), axis=1); [ok, v]: the other axes must agree
Concat1(x, y) ==
  IF Len(x) = Len(y)
  THEN [ok |-> TRUE, v |-> [c \in 1..Len(x) |-> x[c] \o y[c]]]
  ELSE [ok |-> FALSE, v |-> <<>>]

\* m * a, -m for a two-dimensional array
ScaleAll(m, a) == [c \in 1..Len(m) |-> [t \in 1..Len(m[c]) |-> m[c][t] * a]]

ScaleRow(r, a) == [t \in 1..Len(r) |-> r[t] * a]

(* ------------------------------------------------------------------ *)
(* Expr: values                                                        *)
(* ------------------------------------------------------------------ *)

\* An Expr value: [basis, terms, scales, indices]

num_components(e) == Len(e.terms)

num_terms(e) == Len(e.terms[1])

dim(e) == Len(e.terms[1][1])

expr_rank(e) == IF Len(e.terms) = 1 THEN 1 ELSE 2

\* Expr.__init__ without the assignment of basis.index() (line 228 dropped)
ExprInitArange(basis, terms, scales, indices) ==
  LET nc == SpaceNumComponents(basis.space)
      t == IF IsNone(terms)
           THEN [c \in 1..nc |-> <<[d \in 1..SpaceNdim(basis.space) |-> 0]>>]
           ELSE terms.v
      s == IF IsNone(scales) THEN [c \in 1..nc |-> <<1>>] ELSE scales.v
      ix == IF IsNone(indices) THEN [c \in 1..nc |-> <<c - 1>>] ELSE indices.v
  IN [ok |-> Size2(s) = Len(t[1]) * Len(t),
      v |-> [basis |-> basis, terms |-> t, scales |-> s, indices |-> ix]]

\* Expr.__init__; [ok, v]
ExprInit(basis, terms, scales, indices) ==
  LET sp == basis.space
      ndim == SpaceNdim(sp)
      nc == SpaceNumComponents(sp)
      t == IF IsNone(terms)
           THEN [c \in 1..nc |-> <<[d \in 1..ndim |-> 0]>>]
           ELSE terms.v
      s == IF IsNone(scales) THEN [c \in 1..nc |-> <<1>>] ELSE scales.v
      ar == [c \in 1..nc |-> <<c - 1>>]
      ix == IF IsNone(indices)
            THEN IF IsBasisFunction(basis) /\ Shape2(ar) = <<1, 1>>
                 THEN <<<<basis.index>>>>
                 ELSE ar
            ELSE indices.v
  IN [ok |-> Size2(s) = Len(t[1]) * Len(t),
      v |-> [basis |-> basis, terms |-> t, scales |-> s, indices |-> ix]]

\* the loop of __mul__ with a[0] in place of a[i]
RECURSIVE MulLoopFirstEntry(_, _, _, _)
MulLoopFirstEntry(sc, a, i, n) ==
  IF i >= n THEN [ok |-> TRUE, sc |-> sc]
  ELSE IF ~IsNumber(a.v[i + 1]) THEN [ok |-> FALSE, sc |-> sc]
  ELSE IF i + 1 > Len(sc) THEN [ok |-> FALSE, sc |-> sc]
  ELSE MulLoopFirstEntry([sc EXCEPT ![i + 1] = ScaleRow(sc[i + 1], a.v[1].v)],
                         a, i + 1, n)

\* assert isinstance(a[i], Number); sc[i] = sc[i]*a[i], for i in i..n-1.
\* [ok, sc]: sc is the array as the loop leaves it, also when it stops early
RECURSIVE MulLoop(_, _, _, _)
MulLoop(sc, a, i, n) ==
  IF i >= n THEN [ok |-> TRUE, sc |-> sc]
  ELSE IF ~IsNumber(a.v[i + 1]) THEN [ok |-> FALSE, sc |-> sc]
  ELSE IF i + 1 > Len(sc) THEN [ok |-> FALSE, sc |-> sc]
  ELSE MulLoop([sc EXCEPT ![i + 1] = ScaleRow(sc[i + 1], a.v[i + 1].v)], a, i + 1, n)

\* Expr.__mul__: scales a copy of the scales and builds a new Expr; [ok, v]
ExprMul(e, a) ==
  LET sc == e.scales
      m == IF expr_rank(e) = 1
           THEN IF IsNumber(a) THEN [ok |-> TRUE, sc |-> ScaleAll(sc, a.v)]
                ELSE [ok |-> FALSE, sc |-> sc]
           ELSE IF IsTuple(a)
                THEN IF Len(a.v) = dim(e) THEN MulLoop(sc, a, 0, dim(e))
                     ELSE [ok |-> FALSE, sc |-> sc]
                ELSE IF IsNumber(a) THEN [ok |-> TRUE, sc |-> ScaleAll(sc, a.v)]
                ELSE [ok |-> FALSE, sc |-> sc]
  IN IF m.ok THEN ExprInit(e.basis, Arr(e.terms), Arr(m.sc), Arr(e.indices))
     ELSE [ok |-> FALSE, v |-> Null]

\* Expr.__imul__: scales the scales array itself; [ok, sc] with sc the
\* array as the call leaves it, also when an assertion stops it
ExprIMul(e, a) ==
  LET sc == e.scales
  IN IF expr_rank(e) = 1
     THEN IF IsNumber(a) THEN [ok |-> TRUE, sc |-> ScaleAll(sc, a.v)]
          ELSE [ok |-> FALSE, sc |-> sc]
     ELSE IF IsTuple(a)
          THEN IF Len(a.v) = dim(e) THEN MulLoop(sc, a, 0, dim(e))
               ELSE [ok |-> FALSE, sc |-> sc]
          ELSE IF IsNumber(a) THEN [ok |-> TRUE, sc |-> ScaleAll(sc, a.v)]
          ELSE [ok |-> FALSE, sc |-> sc]

\* Expr.__neg__
ExprNeg(e) ==
  ExprInit(e.basis, Arr(e.terms), Arr(ScaleAll(e.scales, -1)), Arr(e.indices))

\* __getitem__ taking row 0 of the arrays in place of row i
ExprGetItemFirstRow(e, i) ==
  LET hb == IF BasisRank(e.basis) = 2 THEN HandleGetItem(e.basis, i)
            ELSE [ok |-> TRUE, v |-> e.basis]
  IN IF hb.ok /\ i >= 0 /\ i < Len(e.terms) /\ i < Len(e.scales) /\ i < Len(e.indices)
     THEN ExprInit(hb.v, Arr(<<e.terms[1]>>), Arr(<<e.scales[1]>>),
                   Arr(<<e.indices[1]>>))
     ELSE [ok |-> FALSE, v |-> Null]

\* Expr.__getitem__; [ok, v]
ExprGetItem(e, i) ==
  LET hb == IF BasisRank(e.basis) = 2 THEN HandleGetItem(e.basis, i)
            ELSE [ok |-> TRUE, v |-> e.basis]
  IN IF hb.ok /\ i >= 0 /\ i < Len(e.terms) /\ i < Len(e.scales) /\ i < Len(e.indices)
     THEN ExprInit(hb.v, Arr(<<e.terms[i + 1]>>), Arr(<<e.scales[i + 1]>>),
                   Arr(<<e.indices[i + 1]>>))
     ELSE [ok |-> FALSE, v |-> Null]

\* the operand of + and -: an Expr as it is, a BasisFunction as Expr(a);
\* anything else fails isinstance(a, (Expr, BasisFunction))
Promote(a) ==
  IF a.t = "expr" THEN [ok |-> TRUE, v |-> a.v]
  ELSE IF a.t = "handle" THEN ExprInit(a.v, None, None, None)
  ELSE [ok |-> FALSE, v |-> Null]

\* the assertions of __add__ without the one on argument()
CompatibleAnyRole(e, b) ==
  /\ num_components(e) = num_components(b)
  /\ e.basis.space = b.basis.space

\* the three assertions of __add__, __iadd__, __sub__ and __isub__
Compatible(e, b) ==
  /\ num_components(e) = num_components(b)
  /\ e.basis.space = b.basis.space
  /\ e.basis.argument = b.basis.argument

\* __add__ that adds up the scales of an operand with the same terms
\* instead of appending them
ExprAddMerging(e, a, sign) ==
  LET p == Promote(a)
      b == p.v
      t == Concat1(e.terms, b.terms)
      s == Concat1(e.scales, ScaleAll(b.scales, sign))
      x == Concat1(e.indices, b.indices)
  IN IF p.ok /\ Compatible(e, b) /\ t.ok /\ s.ok /\ x.ok
     THEN IF b.terms = e.terms /\ b.indices = e.indices
          THEN ExprInit(e.basis, Arr(e.terms),
                        Arr([c \in 1..Len(e.scales) |-> [k \in 1..Len(e.scales[c]) |->
                               e.scales[c][k] + sign * b.scales[c][k]]]),
                        Arr(e.indices))
          ELSE ExprInit(e.basis, Arr(t.v), Arr(s.v), Arr(x.v))
     ELSE [ok |-> FALSE, v |-> Null]

\* Expr.__add__ (sign = 1) and Expr.__sub__ (sign = -1); [ok, v]
ExprAdd(e, a, sign) ==
  LET p == Promote(a)
      b == p.v
      t == Concat1(e.terms, b.terms)
      s == Concat1(e.scales, ScaleAll(b.scales, sign))
      x == Concat1(e.indices, b.indices)
  IN IF p.ok /\ Compatible(e, b) /\ t.ok /\ s.ok /\ x.ok
     THEN ExprInit(e.basis, Arr(t.v), Arr(s.v), Arr(x.v))
     ELSE [ok |-> FALSE, v |-> Null]

\* Expr.__iadd__ (sign = 1) and Expr.__isub__ (sign = -1): the three
\* assignments follow the assertions, one after the other; [ok, n, v] with
\* n the number of assignments made and v the Expr as the call leaves it
ExprIAdd(e, a, sign) ==
  LET p == Promote(a)
      b == p.v
      t == Concat1(e.terms, b.terms)
      s == Concat1(e.scales, ScaleAll(b.scales, sign))
      x == Concat1(e.indices, b.indices)
  IN IF ~(p.ok /\ Compatible(e, b)) THEN [ok |-> FALSE, n |-> 0, v |-> e]
     ELSE IF ~t.ok THEN [ok |-> FALSE, n |-> 0, v |-> e]
     ELSE IF ~s.ok THEN [ok |-> FALSE, n |-> 1, v |-> [e EXCEPT !.terms = t.v]]
     ELSE IF ~x.ok
          THEN [ok |-> FALSE, n |-> 2, v |-> [e EXCEPT !.terms = t.v, !.scales = s.v]]
     ELSE [ok |-> TRUE, n |-> 3,
           v |-> [e EXCEPT !.terms = t.v, !.scales = s.v, !.indices = x.v]]

(* ------------------------------------------------------------------ *)
(* Expr: objects                                                       *)
(* ------------------------------------------------------------------ *)

\* The program holds two Expr variables, a and e.  The scales array of an
\* Expr lives in the heap sheap; an Expr refers to it by [buf, row]: row = 0
\* is the whole array buf, row = r > 0 is the view buf[r-1][np.newaxis, :]
\* that __getitem__ makes.  terms and indices are only ever rebound, never
\* written in place, so they are kept by value.

SlotNames == {"a", "e"}

BufIds == {1, 2}

OtherSlot(s) == IF s = "a" THEN "e" ELSE "a"

IsNull(x) == DOMAIN x = {"null"}

\* the scales array an object sees
ScalesOf(o, heap) ==
  IF o.row = 0 THEN heap[o.buf] ELSE <<heap[o.buf][o.row]>>

\* the Expr value of an object
ValOf(o, heap) ==
  IF IsNull(o) THEN Null
  ELSE [basis |-> o.basis, terms |-> o.terms, scales |-> ScalesOf(o, heap),
        indices |-> o.indices]

Vals == [s \in SlotNames |-> ValOf(slots[s], sheap)]

\* an in-place write of the array m through the reference of object o
WriteScales(heap, o, m) ==
  IF o.row = 0 THEN [heap EXCEPT ![o.buf] = m]
  ELSE [heap EXCEPT ![o.buf][o.row] = m[1]]

\* a buffer no object other than the one in slot s refers to
FreshBuf(s) ==
  LET o == slots[OtherSlot(s)]
  IN IF IsNull(o) THEN 1 ELSE IF o.buf = 1 THEN 2 ELSE 1

\* buffers nobody refers to are released
Collect(heap, sl) ==
  [b \in BufIds |->
     IF \E s \in SlotNames : ~IsNull(sl[s]) /\ sl[s].buf = b THEN heap[b] ELSE <<>>]

\* slot s is bound to a new Expr with value v, its scales in a new array
Bind(s, v) ==
  LET b == FreshBuf(s)
      sl == [slots EXCEPT ![s] = [basis |-> v.basis, terms |-> v.terms,
                                  indices |-> v.indices, buf |-> b, row |-> 0]]
  IN /\ slots' = sl
     /\ sheap' = Collect([sheap EXCEPT ![b] = v.scales], sl)

\* the operations that return a new Expr, and those that return self
NonInPlaceOps == {"getitem", "mul", "neg", "add", "sub"}

InPlaceOps == {"imul", "iadd", "isub"}

\* what the last operation was, on what, and what came of it; the arrays of
\* the Function / Array part are not touched
Note(op, src, arg, ok) ==
  /\ last' = [op |-> op, src |-> src, arg |-> arg, ok |-> ok,
              pre |-> Vals, srcprov |-> IF src = "" THEN "" ELSE prov[src]]
  /\ steps' = steps + 1
  /\ esrc' = IF ok /\ op \in NonInPlaceOps THEN src ELSE esrc
  /\ UNCHANGED <<funvars, hvars, basvars>>

ExprInitState ==
  /\ slots = [s \in SlotNames |-> Null]
  /\ sheap = [b \in BufIds |-> <<>>]
  /\ prov = [s \in SlotNames |-> ""]
  /\ last = [op |-> "", src |-> "", arg |-> None, ok |-> TRUE,
             pre |-> [s \in SlotNames |-> Null], srcprov |-> ""]
  /\ steps = 0
  /\ esrc = ""

(* ------------------------------------------------------------------ *)
(* Inputs                                                              *)
(* ------------------------------------------------------------------ *)

\* the handles a program builds: of each class on a scalar and on the
\* vector space, and the components v[i] of the handles on the vector space
WholeHandles ==
  UNION {{TestFunction(sp, 0), TrialFunction(sp, 0), FunctionHandle(sp, 0)} :
           sp \in {"S", "V"}}
  \cup {TestFunction("W", 0), BasisFunction("V", 1, 0)}

Handles ==
  WholeHandles \cup
  {HandleGetItem(h, i).v :
     h \in {g \in WholeHandles : BasisRank(g) = 2}, i \in 0..1}

\* the bases of explicitly constructed Exprs
ExplicitBases ==
  {TestFunction("S", 0), TrialFunction("V", 0), FunctionHandle("V", 0)}

\* terms of shape (C, T, D): term t of component c differentiates t times
\* along one axis
TermsIn(C, T, D) ==
  [c \in 1..C |-> [t \in 1..T |-> [d \in 1..D |->
     IF d = ((c + t) % D) + 1 THEN t ELSE 0]]]

\* an array of shape (R, K) with pairwise different entries 1..R*K
MatIn(R, K) == [c \in 1..R |-> [t \in 1..K |-> c + (t - 1) * R]]

\* indices of shape (R, K) into the components of basis b
IndicesIn(b, R, K) ==
  [c \in 1..R |-> [t \in 1..K |->
     IF SpaceNumComponents(b.space) = 1 THEN b.index
     ELSE (c + t) % SpaceNumComponents(b.space)]]

\* the right-hand sides of *, *=
Multipliers ==
  {Num(2), Str, Tup(<<Num(2), Num(3)>>), Tup(<<Num(2), Str>>),
   Tup(<<Str, Num(3)>>), Tup(<<Num(2)>>)}

OperandHandles ==
  {TrialFunction("S", 0), TestFunction("W", 0), TrialFunction("V", 0)}

\* the right-hand sides of +, -, +=, -=: a handle, one of the program's
\* Exprs, or something that is neither
Operands ==
  {[t |-> "handle", v |-> h] : h \in OperandHandles}
  \cup {[t |-> "expr", v |-> Vals[s]] : s \in {r \in SlotNames : ~IsNull(slots[r])}}
  \cup {Num(2)}

(* ------------------------------------------------------------------ *)
(* Expr: actions                                                       *)
(* ------------------------------------------------------------------ *)

\* a = Expr(h)
NewExpr(h) ==
  LET r == ExprInit(h, None, None, None)
  IN /\ steps < MaxSteps
     /\ IsNull(slots["a"])
     /\ IF r.ok
        THEN Bind("a", r.v) /\ prov' = [prov EXCEPT !["a"] = "identity"]
        ELSE UNCHANGED <<slots, sheap, prov>>
     /\ Note("Expr", "", [t |-> "handle", v |-> h], r.ok)

\* a = Expr(h, terms, scales, indices)
Construct(h, terms, scales, indices, how) ==
  LET r == ExprInit(h, terms, scales, indices)
  IN /\ steps < MaxSteps
     /\ IsNull(slots["a"])
     /\ IF r.ok
        THEN Bind("a", r.v) /\ prov' = [prov EXCEPT !["a"] = how]
        ELSE UNCHANGED <<slots, sheap, prov>>
     /\ Note(how, "", [t |-> "handle", v |-> h], r.ok)

\* a = Expr(h, terms, scales, indices) with arrays of the documented shapes:
\* terms (C, T, D) with C = 1 or C = D, scales and indices (C, T)
NewExprArgs ==
  \E h \in ExplicitBases, T \in 1..MaxT :
    \E C \in {1, SpaceNdim(h.space)} :
      Construct(h, Arr(TermsIn(C, T, SpaceNdim(h.space))), Arr(MatIn(C, T)),
                Arr(IndicesIn(h, C, T)), "explicit")

\* e = src[i]: the new Expr's scales are a view of row i of src's
GetItem(src, i) ==
  LET o == slots[src]
      r == ExprGetItem(Vals[src], i)
      sl == [slots EXCEPT !["e"] =
               [basis |-> r.v.basis, terms |-> r.v.terms, indices |-> r.v.indices,
                buf |-> o.buf, row |-> IF o.row = 0 THEN i + 1 ELSE o.row]]
  IN /\ steps < MaxSteps
     /\ ~IsNull(o)
     /\ IF r.ok
        THEN /\ slots' = sl
             /\ sheap' = Collect(sheap, sl)
             /\ prov' = [prov EXCEPT !["e"] = "getitem"]
        ELSE UNCHANGED <<slots, sheap, prov>>
     /\ Note("getitem", src, Num(i), r.ok)

\* e = a * x
Mul(x) ==
  LET r == ExprMul(Vals["a"], x)
  IN /\ steps < MaxSteps
     /\ ~IsNull(slots["a"])
     /\ IF r.ok
        THEN Bind("e", r.v) /\ prov' = [prov EXCEPT !["e"] = "mul"]
        ELSE UNCHANGED <<slots, sheap, prov>>
     /\ Note("mul", "a", x, r.ok)

\* e = -a
Neg ==
  LET r == ExprNeg(Vals["a"])
  IN /\ steps < MaxSteps
     /\ ~IsNull(slots["a"])
     /\ IF r.ok
        THEN Bind("e", r.v) /\ prov' = [prov EXCEPT !["e"] = "neg"]
        ELSE UNCHANGED <<slots, sheap, prov>>
     /\ Note("neg", "a", None, r.ok)

\* e = a + b (sign = 1), e = a - b (sign = -1)
Add(b, sign) ==
  LET r == ExprAdd(Vals["a"], b, sign)
      op == IF sign = 1 THEN "add" ELSE "sub"
  IN /\ steps < MaxSteps
     /\ ~IsNull(slots["a"])
     /\ IF r.ok
        THEN Bind("e", r.v) /\ prov' = [prov EXCEPT !["e"] = op]
        ELSE UNCHANGED <<slots, sheap, prov>>
     /\ Note(op, "a", b, r.ok)

\* s *= x: writes through s's scales array, whatever else refers to it
IMul(s, x) ==
  LET m == ExprIMul(Vals[s], x)
  IN /\ steps < MaxSteps
     /\ ~IsNull(slots[s])
     /\ sheap' = WriteScales(sheap, slots[s], m.sc)
     /\ UNCHANGED <<slots, prov>>
     /\ Note("imul", s, x, m.ok)

\* s += b (sign = 1), s -= b (sign = -1): rebinds s's three arrays
IAdd(s, b, sign) ==
  LET r == ExprIAdd(Vals[s], b, sign)
      nb == FreshBuf(s)
      sl == [slots EXCEPT ![s] =
               [basis |-> r.v.basis, terms |-> r.v.terms, indices |-> r.v.indices,
                buf |-> IF r.n >= 2 THEN nb ELSE slots[s].buf,
                row |-> IF r.n >= 2 THEN 0 ELSE slots[s].row]]
  IN /\ steps < MaxSteps
     /\ ~IsNull(slots[s])
     /\ slots' = sl
     /\ sheap' = Collect(IF r.n >= 2 THEN [sheap EXCEPT ![nb] = r.v.scales]
                         ELSE sheap, sl)
     /\ UNCHANGED prov
     /\ Note(IF sign = 1 THEN "iadd" ELSE "isub", s, b, r.ok)

\* a = Expr(h, terms, scales, indices) with arrays of any shapes, or None:
\* whatever __init__ accepts
RawBases == {TestFunction("S", 0), TrialFunction("V", 0)}

RawShapes == (1..2) \X (1..MaxT)

NewExprRaw ==
  \E h \in RawBases :
    \E terms \in {None} \cup {Arr(TermsIn(q[1], q[2], SpaceNdim(h.space))) : q \in RawShapes},
       scales \in {None} \cup {Arr(MatIn(q[1], q[2])) : q \in RawShapes},
       indices \in {None} \cup {Arr(IndicesIn(h, q[1], q[2])) : q \in RawShapes} :
      Construct(h, terms, scales, indices, "raw")

Next ==
  \/ \E h \in Handles : NewExpr(h)
  \/ NewExprArgs
  \/ \E src \in SlotNames, i \in 0..1 : GetItem(src, i)
  \/ \E x \in Multipliers : Mul(x)
  \/ Neg
  \/ \E b \in Operands, sign \in {1, -1} : Add(b, sign)
  \/ \E s \in SlotNames, x \in Multipliers : IMul(s, x)
  \/ \E s \in SlotNames, b \in Operands, sign \in {1, -1} : IAdd(s, b, sign)

(* ------------------------------------------------------------------ *)
(* Function and Array: values                                          *)
(* ------------------------------------------------------------------ *)

\* An array object: [cls, space, argument, index, buf, off, shape, dtype].
\* Its elements are mem[buf][off+1 .. off+size] in C order: arrays made with
\* buffer= and views ndarray.__getitem__ returns refer to the storage of the
\* array they come from.  space = "" is an array without _space.

ObjNames == {"u", "v", "A", "f", "g"}

Bool(b) == [t |-> "bool", v |-> b]

\* isinstance(buffer, np.ndarray)
IsArray(x) == x.t = "arr"

\* space.is_forward_output(array): the array has the shape and the element
\* type of the forward transform's output
SpaceForwardShape(sp) ==
  IF SpaceNumComponents(sp) # 1
  THEN <<SpaceNumComponents(sp)>> \o SpaceTable[sp].outshape
  ELSE SpaceTable[sp].outshape

SpaceIsForwardOutput(sp, o) ==
  o.shape = SpaceForwardShape(sp) /\ o.dtype = SpaceTable[sp].outdtype

\* np.prod(shape)
RECURSIVE ShapeSize(_)
ShapeSize(sh) == IF sh = <<>> THEN 1 ELSE Head(sh) * ShapeSize(Tail(sh))

\* bytes of one element: float64 ("d") and complex128 ("D")
ItemSize(dtype) == IF dtype = "D" THEN 16 ELSE 8

\* np.ndarray.__new__(cls, shape, dtype=dtype, buffer=buffer) for the array
\* named name: new storage without a buffer, else the buffer's storage, which
\* must be large enough; [ok, buf, off]
NdarrayNew(name, shape, dtype, buffer) ==
  IF IsNone(buffer) THEN [ok |-> TRUE, buf |-> name, off |-> 0]
  ELSE IF ShapeSize(shape) * ItemSize(dtype)
            <= ShapeSize(buffer.v.shape) * ItemSize(buffer.v.dtype)
       THEN [ok |-> TRUE, buf |-> buffer.v.buf, off |-> buffer.v.off]
       ELSE [ok |-> FALSE, buf |-> "", off |-> 0]

\* Function.__new__; [ok, o, fill]: fill is the value obj.fill() writes, or
\* None when a buffer is given
FunctionNew(name, space, forward_output, val, buffer) ==
  LET out == SpaceTable[space].outshape
      shape == IF IsArray(buffer) THEN buffer.v.shape
               ELSE IF ~(SpaceNumComponents(space) = 1)
                    THEN <<SpaceNumComponents(space)>> \o out
                    ELSE out
      dtype == IF IsArray(buffer) THEN buffer.v.dtype ELSE SpaceTable[space].outdtype
      r == NdarrayNew(name, shape, dtype, buffer)
  IN [ok |-> r.ok,
      o |-> [cls |-> "Function", space |-> "", argument |-> 0, index |-> 0,
             buf |-> r.buf, off |-> r.off, shape |-> shape, dtype |-> dtype],
      fill |-> IF IsNone(buffer) THEN val ELSE None]

\* Function.__init__: BasisFunction.__init__(self, space, 2)
FunctionInit(o, space) ==
  [o EXCEPT !.space = space, !.argument = 2, !.index = 0]

\* the call Function(space, pos2, val=kwval, buffer=buffer): __new__ takes
\* the second positional argument as forward_output, __init__ takes it as
\* val; an argument not given is None here
Function(name, space, pos2, kwval, buffer) ==
  LET n == FunctionNew(name, space,
                       IF IsNone(pos2) THEN Bool(TRUE) ELSE pos2,
                       IF IsNone(kwval) THEN Num(0) ELSE kwval,
                       buffer)
  IN [n EXCEPT !.o = FunctionInit(n.o, space)]

\* Array.__new__; [ok, o, fill]
ArrayNew(name, space, forward_output, val, buffer) ==
  LET isout == forward_output.t = "bool" /\ forward_output.v = TRUE
      shape0 == IF isout THEN SpaceTable[space].outshape ELSE SpaceTable[space].inshape
      dtype == IF isout THEN SpaceTable[space].outdtype ELSE SpaceTable[space].indtype
      shape == IF ~(SpaceNumComponents(space) = 1)
               THEN <<SpaceNumComponents(space)>> \o shape0
               ELSE shape0
      r == NdarrayNew(name, shape, dtype, buffer)
  IN [ok |-> r.ok,
      o |-> [cls |-> "Array", space |-> space, argument |-> 2, index |-> 0,
             buf |-> r.buf, off |-> r.off, shape |-> shape, dtype |-> dtype],
      fill |-> IF IsNone(buffer) THEN val ELSE None]

\* np.ndarray.__getitem__(self, i) for an integer i, with the metadata
\* __array_finalize__ copies to the view; [ok, isview, o]: an element of a
\* one-dimensional array is a number, not a view
NdarrayGetItem(o, i) ==
  IF i >= 0 /\ i < o.shape[1]
  THEN [ok |-> TRUE, isview |-> Len(o.shape) > 1,
        o |-> [o EXCEPT !.shape = Tail(o.shape),
                        !.off = o.off + i * ShapeSize(Tail(o.shape)),
                        !.argument = IF o.space # "" THEN 2 ELSE o.argument]]
  ELSE [ok |-> FALSE, isview |-> FALSE, o |-> o]

\* Function.__getitem__ taking np.ndarray.__getitem__(self, 0) for every i
FunctionGetItemFirstSlab(name, u, i) ==
  IF u.space # "" /\ SpaceRank(u.space) = 2
       /\ i \in 0..(SpaceNumComponents(u.space) - 1)
  THEN LET v0 == BasisFunction(SpaceGetItem(u.space, i), u.argument, i)
           v1 == NdarrayGetItem(u, 0)
           f0 == Function(name, v0.space, None, None, Arr(v1.o))
       IN [ok |-> v1.ok /\ f0.ok, isfun |-> TRUE,
           o |-> [f0.o EXCEPT !.index = i, !.argument = 2]]
  ELSE LET v == NdarrayGetItem(u, i)
       IN [ok |-> v.ok /\ v.isview, isfun |-> FALSE, o |-> v.o]

\* Function.__getitem__; [ok, isfun, o]: isfun when the result is a Function
\* on the component space
FunctionGetItem(name, u, i) ==
  IF u.space # "" /\ SpaceRank(u.space) = 2
       /\ i \in 0..(SpaceNumComponents(u.space) - 1)
  THEN LET v0 == BasisFunction(SpaceGetItem(u.space, i), u.argument, i)
           v1 == NdarrayGetItem(u, i)
           f0 == Function(name, v0.space, None, None, Arr(v1.o))
       IN [ok |-> v1.ok /\ f0.ok, isfun |-> TRUE,
           o |-> [f0.o EXCEPT !.index = i, !.argument = 2]]
  ELSE LET v == NdarrayGetItem(u, i)
       IN [ok |-> v.ok /\ v.isview, isfun |-> FALSE, o |-> v.o]

\* as_array with forward_output=False: the shape and type of the input of
\* the forward transform
FunctionAsArrayInput(name, f) ==
  ArrayNew(name, f.space, Bool(FALSE), Num(0), Arr(f))

\* Function.as_array
FunctionAsArray(name, f) ==
  ArrayNew(name, f.space, Bool(TRUE), Num(0), Arr(f))

\* Array.as_function
ArrayAsFunction(name, A) ==
  IF SpaceIsForwardOutput(A.space, A)
  THEN Function(name, A.space, None, None, Arr(A))
  ELSE [ok |-> FALSE, o |-> A, fill |-> None]

(* ------------------------------------------------------------------ *)
(* Function and Array: actions                                         *)
(* ------------------------------------------------------------------ *)

\* the elements of an array object, in C order
Elements(o) == [k \in 1..ShapeSize(o.shape) |-> mem[o.buf][o.off + k]]

ElementsAll ==
  [n \in ObjNames |-> IF IsNull(objs[n]) THEN <<>> ELSE Elements(objs[n])]

\* the initial values and the values written
FillValues == {0, 3}

WriteValues == {1, 2}

\* what the last operation was and what it saw; vi is the component of the
\* last v = u[i], gfrom the array g was made from
FunNote(op, src, arg, ok, vi, gfrom) ==
  /\ flast' = [op |-> op, src |-> src, arg |-> arg, ok |-> ok, pre |-> ElementsAll,
               vi |-> vi, gfrom |-> gfrom]
  /\ fsteps' = fsteps + 1
  /\ UNCHANGED <<exprvars, hvars, basvars>>

\* name is bound to the array a constructor call r = [ok, o, fill] made
FunBind(name, r) ==
  IF r.ok
  THEN /\ objs' = [objs EXCEPT ![name] = r.o]
       /\ mem' = IF IsNone(r.fill) THEN mem
                 ELSE [mem EXCEPT ![r.o.buf] = [k \in 1..ShapeSize(r.o.shape) |-> r.fill.v]]
  ELSE UNCHANGED <<objs, mem>>

\* u = Function(space), u = Function(space, x), u = Function(space, val=x)
NewFunction(space, form, x) ==
  LET r == Function("u", space,
                    IF form = "positional" THEN Num(x) ELSE None,
                    IF form = "keyword" THEN Num(x) ELSE None,
                    None)
  IN /\ fsteps < MaxFunSteps
     /\ IsNull(objs["u"])
     /\ FunBind("u", r)
     /\ FunNote("Function", "", [form |-> form, space |-> space, val |-> x], r.ok,
                flast.vi, flast.gfrom)

\* A = Array(space, forward_output, x)
NewArray(space, forward_output, x) ==
  LET r == ArrayNew("A", space, Bool(forward_output), Num(x), None)
  IN /\ fsteps < MaxFunSteps
     /\ IsNull(objs["A"])
     /\ FunBind("A", r)
     /\ FunNote("Array", "", [form |-> "", space |-> space, val |-> x], r.ok,
                flast.vi, flast.gfrom)

\* v = u[i]; v stays unbound when u[i] is a number or raises
FunGetItem(i) ==
  LET r == FunctionGetItem("v", objs["u"], i)
  IN /\ fsteps < MaxFunSteps
     /\ ~IsNull(objs["u"])
     /\ IsNull(objs["v"])
     /\ IF r.ok THEN objs' = [objs EXCEPT !["v"] = r.o] ELSE UNCHANGED objs
     /\ UNCHANGED mem
     /\ FunNote("getitem", "u", [form |-> "", space |-> "", val |-> i], r.ok,
                i, flast.gfrom)

\* n.flat[p] = x: ndarray.__setitem__ writes the storage n refers to
SetItem(n, p, x) ==
  /\ fsteps < MaxFunSteps
  /\ ~IsNull(objs[n])
  /\ p < ShapeSize(objs[n].shape)
  /\ mem' = [mem EXCEPT ![objs[n].buf][objs[n].off + p + 1] = x]
  /\ UNCHANGED objs
  /\ FunNote("setitem", n, [form |-> "", space |-> "", val |-> x, pos |-> p], TRUE,
             flast.vi, flast.gfrom)

\* f = A.as_function()
AsFunction ==
  LET r == ArrayAsFunction("f", objs["A"])
  IN /\ fsteps < MaxFunSteps
     /\ ~IsNull(objs["A"])
     /\ IsNull(objs["f"])
     /\ FunBind("f", r)
     /\ FunNote("as_function", "A", None, r.ok, flast.vi, flast.gfrom)

\* g = src.as_array() for the Function src
AsArray(src) ==
  LET r == FunctionAsArray("g", objs[src])
  IN /\ fsteps < MaxFunSteps
     /\ ~IsNull(objs[src])
     /\ IsNull(objs["g"])
     /\ FunBind("g", r)
     /\ FunNote("as_array", src, None, r.ok, flast.vi, IF r.ok THEN src ELSE flast.gfrom)

\* g = A.as_function().as_array()
RoundTrip ==
  LET f == ArrayAsFunction("f", objs["A"])
      r == IF f.ok THEN FunctionAsArray("g", f.o) ELSE f
  IN /\ fsteps < MaxFunSteps
     /\ ~IsNull(objs["A"])
     /\ IsNull(objs["g"])
     /\ FunBind("g", r)
     /\ FunNote("roundtrip", "A", None, r.ok, flast.vi, IF r.ok THEN "A" ELSE flast.gfrom)

FunInitState ==
  /\ objs = [n \in ObjNames |-> Null]
  /\ mem = [n \in ObjNames |-> <<>>]
  /\ flast = [op |-> "", src |-> "", arg |-> None, ok |-> TRUE,
              pre |-> [n \in ObjNames |-> <<>>], vi |-> -1, gfrom |-> ""]
  /\ fsteps = 0

NextFun ==
  \/ \E sp \in SpaceIds : NewFunction(sp, "omitted", 0)
  \/ \E sp \in SpaceIds, form \in {"positional", "keyword"}, x \in FillValues :
       NewFunction(sp, form, x)
  \/ \E sp \in SpaceIds, fo \in BOOLEAN, x \in FillValues : NewArray(sp, fo, x)
  \/ \E i \in 0..2 : FunGetItem(i)
  \/ \E n \in ObjNames, p \in 0..3, x \in WriteValues : SetItem(n, p, x)
  \/ AsFunction
  \/ \E src \in {"u", "f"} : AsArray(src)
  \/ RoundTrip

(* ------------------------------------------------------------------ *)
(* BasisFunction handles: actions                                      *)
(* ------------------------------------------------------------------ *)

HandleNames == {"h", "k"}

HandleNote(op, src, dst, i, ok) ==
  /\ hlast' = [op |-> op, src |-> src, dst |-> dst, i |-> i, ok |-> ok,
               pre |-> hnd]
  /\ hsteps' = hsteps + 1
  /\ UNCHANGED <<exprvars, funvars, basvars>>

\* n = BasisFunction(space, argument, index), n = TestFunction(space, index),
\* n = TrialFunction(space, index)
NewHandle(n, kind, space, argument, index) ==
  LET b == CASE kind = "TestFunction" -> TestFunction(space, index)
             [] kind = "TrialFunction" -> TrialFunction(space, index)
             [] OTHER -> BasisFunction(space, argument, index)
  IN /\ hsteps < MaxHandleSteps
     /\ hnd' = [hnd EXCEPT ![n] = b]
     /\ horig' = [horig EXCEPT ![n] = [kind |-> b.kind, argument |-> b.argument]]
     /\ HandleNote("new", "", n, -1, TRUE)

\* dst = src[i]; dst keeps what it was bound to when the indexing fails
HandleIndex(src, dst, i) ==
  LET r == HandleGetItem(hnd[src], i)
  IN /\ hsteps < MaxHandleSteps
     /\ ~IsNull(hnd[src])
     /\ IF r.ok
        THEN /\ hnd' = [hnd EXCEPT ![dst] = r.v]
             /\ horig' = [horig EXCEPT ![dst] = horig[src]]
        ELSE UNCHANGED <<hnd, horig>>
     /\ HandleNote("getitem", src, dst, i, r.ok)

HandleInitState ==
  /\ hnd = [n \in HandleNames |-> Null]
  /\ horig = [n \in HandleNames |-> [kind |-> "", argument |-> -1]]
  /\ hlast = [op |-> "", src |-> "", dst |-> "", i |-> -1, ok |-> TRUE,
              pre |-> [n \in HandleNames |-> Null]]
  /\ hsteps = 0

\* the constructor calls of the program: <<class, space, argument, index>>
HandleCalls ==
  {<<"BasisFunction", sp, a, 0>> : sp \in {"S", "V"}, a \in {1, 2}}
  \cup {<<"TestFunction", "V", 0, ix>> : ix \in 0..1}
  \cup {<<kind, sp, 0, 0>> : kind \in {"TestFunction", "TrialFunction"},
                            sp \in {"W", "V"}}

NextHandle ==
  \/ \E n \in HandleNames, c \in HandleCalls : NewHandle(n, c[1], c[2], c[3], c[4])
  \/ \E src \in HandleNames, dst \in HandleNames, i \in 0..2 :
       HandleIndex(src, dst, i)

(* ------------------------------------------------------------------ *)
(* The Basis factory                                                   *)
(* ------------------------------------------------------------------ *)

\* a str argument with its characters
StrOf(s) == [t |-> "str", v |-> s]

\* isinstance(x, str)
IsStr(x) == x.t = "str"

\* isinstance(x, bool)
IsBool(x) == x.t = "bool"

\* str.lower() on the strings the factory is called with
Lower(s) ==
  CASE s = "Fourier" -> "fourier"
    [] s = "F" -> "f"
    [] s = "Chebyshev" -> "chebyshev"
    [] s = "C" -> "c"
    [] s = "LEGENDRE" -> "legendre"
    [] s = "L" -> "l"
    [] s = "Hermite" -> "hermite"
    [] s = "Dirichlet" -> "dirichlet"
    [] s = "BIHARMONIC" -> "biharmonic"
    [] s = "Robin" -> "robin"
    [] OTHER -> s

\* np.dtype(dtype).char
DtypeChar(dtype) ==
  CASE dtype = "complex" -> "D"
    [] dtype = "float" -> "d"
    [] OTHER -> dtype

\* the factory returned what the one constructor call B(N, **par) made
Returned(B, N, par) ==
  [outcome |-> "returned", calls |-> <<[ctor |-> B, N |-> N, par |-> par]>>]

\* the factory raised before calling a constructor
Raised(exc) == [outcome |-> exc, calls |-> <<>>]

\* the Fourier branch always taking the real-to-complex basis
FourierBasisR2C(dtype) == "fourier.bases.R2CBasis"

\* the basis class of the Fourier branch
FourierBasis(dtype) ==
  IF DtypeChar(dtype) \in {"F", "D", "G"}
  THEN "fourier.bases.C2CBasis"
  ELSE "fourier.bases.R2CBasis"

\* the if / elif chain on bc of the Chebyshev and Legendre branches:
\* exc is what it raises, bound whether it assigned B
SelectBc(pkg, bc, par) ==
  IF IsNone(bc)
  THEN [exc |-> "", bound |-> TRUE, B |-> pkg \o ".bases.Basis", par |-> par]
  ELSE IF IsTuple(bc)
  THEN IF Len(bc.v) # 2
       THEN [exc |-> "AssertionError", bound |-> FALSE, B |-> "", par |-> par]
       ELSE [exc |-> "", bound |-> TRUE, B |-> pkg \o ".bases.ShenDirichletBasis",
             par |-> par @@ ("bc" :> bc)]
  ELSE IF IsStr(bc)
  THEN CASE Lower(bc.v) = "dirichlet" ->
              [exc |-> "", bound |-> TRUE, B |-> pkg \o ".bases.ShenDirichletBasis",
               par |-> par]
         [] Lower(bc.v) = "neumann" ->
              [exc |-> "", bound |-> TRUE, B |-> pkg \o ".bases.ShenNeumannBasis",
               par |-> par]
         [] Lower(bc.v) = "biharmonic" ->
              [exc |-> "", bound |-> TRUE, B |-> pkg \o ".bases.ShenBiharmonicBasis",
               par |-> par]
         [] OTHER -> [exc |-> "", bound |-> FALSE, B |-> "", par |-> par]
  ELSE [exc |-> "NotImplementedError", bound |-> FALSE, B |-> "", par |-> par]

\* return B(N, **par) after the chain on bc: B may not have been assigned
CallSelected(sel, N) ==
  IF sel.exc # "" THEN Raised(sel.exc)
  ELSE IF ~sel.bound THEN Raised("UnboundLocalError")
  ELSE Returned(sel.B, N, sel.par)

Basis(N, family, bc, dtype, quad, domain, scaled, plan, padding_factor, dealias_direct) ==
  LET par0 == "plan" :> plan
      par == IF ~IsNone(domain) THEN par0 @@ ("domain" :> domain) ELSE par0
  IN IF Lower(family) \in {"fourier", "f"}
     THEN Returned(FourierBasis(dtype), N,
                   par @@ ("padding_factor" :> padding_factor)
                       @@ ("dealias_direct" :> dealias_direct))
     ELSE IF Lower(family) \in {"chebyshev", "c"}
     THEN IF ~IsNone(quad) /\ quad.v \notin {"GC", "GL"}
          THEN Raised("AssertionError")
          ELSE CallSelected(
                 SelectBc("chebyshev", bc,
                          IF ~IsNone(quad) THEN par @@ ("quad" :> quad) ELSE par), N)
     ELSE IF Lower(family) \in {"legendre", "l"}
     THEN IF ~IsNone(quad) /\ quad.v \notin {"LG", "GL"}
          THEN Raised("AssertionError")
          ELSE IF ~IsNone(scaled) /\ ~IsBool(scaled)
          THEN Raised("AssertionError")
          ELSE LET par1 == IF ~IsNone(quad) THEN par @@ ("quad" :> quad) ELSE par
                   par2 == IF ~IsNone(scaled) THEN par1 @@ ("scaled" :> scaled)
                           ELSE par1
               IN CallSelected(SelectBc("legendre", bc, par2), N)
     ELSE Raised("NotImplementedError")

\* the arguments the factory is called with
QuadPoints == {8}

Families == {"Fourier", "f", "Chebyshev", "C", "LEGENDRE", "l", "Hermite"}

BcValues ==
  {None, Tup(<<Num(0), Num(1)>>), Tup(<<Num(0), Num(1), Num(2)>>),
   StrOf("Dirichlet"), StrOf("neumann"), StrOf("BIHARMONIC"), StrOf("Robin"),
   Num(1)}

Dtypes == {"d", "F", "complex"}

Quads == {None, StrOf("GC"), StrOf("GL"), StrOf("LG")}

Domains == {None, Tup(<<Num(0), Num(1)>>)}

Scaleds == {None, Bool(TRUE), Bool(FALSE), Num(1)}

PaddingFactors == {1, 2}

\* B = Basis(N, family, bc, dtype, quad, domain, scaled, plan, padding_factor,
\* dealias_direct): the calls share no state, a run makes one
CallBasis(N, family, bc, dtype, quad, domain, scaled, plan, padding_factor, dealias_direct) ==
  /\ ~bcall.made
  /\ bcall' = [made |-> TRUE,
               args |-> [N |-> N, family |-> family, bc |-> bc, dtype |-> dtype,
                         quad |-> quad, domain |-> domain, scaled |-> scaled,
                         plan |-> plan, padding_factor |-> padding_factor,
                         dealias_direct |-> dealias_direct],
               res |-> Basis(N, family, bc, dtype, quad, domain, scaled, plan,
                             padding_factor, dealias_direct)]
  /\ UNCHANGED <<exprvars, funvars, hvars>>

BasisInitState ==
  bcall = [made |-> FALSE, args |-> <<>>, res |-> Raised("")]

\* N of the call still to be made
PendingN == IF bcall.made THEN {} ELSE QuadPoints

NextBasis ==
  \E N \in PendingN, family \in Families, bc \in BcValues, dtype \in Dtypes,
     quad \in Quads, domain \in Domains, scaled \in Scaleds, plan \in BOOLEAN,
     padding_factor \in PaddingFactors, dealias_direct \in BOOLEAN :
    CallBasis(N, family, bc, dtype, quad, domain, scaled, plan, padding_factor,
              dealias_direct)

(* ------------------------------------------------------------------ *)
(* Specifications                                                      *)
(* ------------------------------------------------------------------ *)

Init == ExprInitState /\ FunInitState /\ HandleInitState /\ BasisInitState

\* the Expr algebra, Exprs constructed with arrays of the documented shapes
Spec == Init /\ [][Next]_vars

\* the same, the constructor also called with arrays of any shape
NextRaw ==
  \/ NewExprRaw
  \/ Next

SpecRaw == Init /\ [][NextRaw]_vars

\* Function and Array
SpecFun == Init /\ [][NextFun]_vars

\* BasisFunction, TestFunction, TrialFunction handles
SpecHandle == Init /\ [][NextHandle]_vars

\* the Basis factory
SpecBasis == Init /\ [][NextBasis]_vars

(* ------------------------------------------------------------------ *)
(* Properties                                                          *)
(* ------------------------------------------------------------------ *)

\* the Expr the last operation read, and the Expr it produced
PreSrc == last.pre[last.src]

Result == Vals["e"]

\* the Expr that the right-hand side of the last +, -, +=, -= stands for
\* (an Expr as it is, a handle as its identity Expr)
Rhs ==
  IF last.arg.t = "expr" THEN last.arg.v
  ELSE [basis |-> last.arg.v,
        terms |-> [c \in 1..SpaceNumComponents(last.arg.v.space) |->
                     <<[d \in 1..SpaceNdim(last.arg.v.space) |-> 0]>>],
        scales |-> [c \in 1..SpaceNumComponents(last.arg.v.space) |-> <<1>>],
        indices |-> [c \in 1..SpaceNumComponents(last.arg.v.space) |->
                       <<IF SpaceNumComponents(last.arg.v.space) = 1
                         THEN last.arg.v.index ELSE c - 1>>]]

\* x followed by y along the term axis, entry by entry
IsConcat(r, x, y) ==
  /\ Len(r) = Len(x)
  /\ \A c \in 1..Len(x) :
       /\ Len(r[c]) = Len(x[c]) + Len(y[c])
       /\ \A t \in 1..Len(r[c]) :
            r[c][t] = IF t <= Len(x[c]) THEN x[c][t] ELSE y[c][t - Len(x[c])]

\* C1: every Expr that exists has scales and indices of the shape of the
\* two leading dimensions (C, T) of terms.
C1_SharedLeadingDims ==
  \A s \in SlotNames :
    ~IsNull(slots[s]) =>
      /\ Shape2(Vals[s].scales) = Shape3Lead(Vals[s].terms)
      /\ Shape2(Vals[s].indices) = Shape3Lead(Vals[s].terms)

\* C2: a + b for compatible Exprs a and b succeeds, and the terms, scales
\* and indices of the sum are a's followed by b's along the term axis,
\* nothing merged, cancelled or dropped.
C2_AddConcatenates ==
  (/\ last.op = "add"
   /\ last.arg.t = "expr"
   /\ num_components(PreSrc) = num_components(last.arg.v)
   /\ PreSrc.basis.space = last.arg.v.basis.space
   /\ PreSrc.basis.argument = last.arg.v.basis.argument)
  => /\ last.ok
     /\ num_terms(Result) = num_terms(PreSrc) + num_terms(last.arg.v)
     /\ IsConcat(Result.terms, PreSrc.terms, last.arg.v.terms)
     /\ IsConcat(Result.scales, PreSrc.scales, last.arg.v.scales)
     /\ IsConcat(Result.indices, PreSrc.indices, last.arg.v.indices)

\* C2 witness: a sum of two Exprs with the same terms and opposite scales.
C2_Witness ==
  /\ last.op = "add"
  /\ last.ok
  /\ last.arg.t = "expr"
  /\ last.arg.v.terms = PreSrc.terms
  /\ last.arg.v.scales = ScaleAll(PreSrc.scales, -1)
  /\ num_terms(Result) = 2 * num_terms(PreSrc)

\* C3: Expr(b) is the identity operator: terms of shape (C, 1, D) all zero,
\* scales of shape (C, 1) all one, indices[c, 0] = c, or b.index() when the
\* space has one component.
C3_IdentityExpr ==
  last.op = "Expr" =>
    LET b == last.arg.v
        C == SpaceNumComponents(b.space)
        D == SpaceNdim(b.space)
        r == Vals["a"]
    IN /\ last.ok
       /\ Len(r.terms) = C /\ Len(r.scales) = C /\ Len(r.indices) = C
       /\ \A c \in 1..C :
            /\ Len(r.terms[c]) = 1
            /\ Len(r.terms[c][1]) = D
            /\ \A d \in 1..D : r.terms[c][1][d] = 0
            /\ r.scales[c] = <<1>>
            /\ r.indices[c] = <<IF C = 1 THEN b.index ELSE c - 1>>
       /\ r.basis = b

\* C3 witness: the identity Expr of component 1 of a vector Function.
C3_Witness ==
  /\ last.op = "Expr"
  /\ last.arg.v.kind = "Function"
  /\ last.arg.v.index = 1
  /\ Vals["a"].indices = <<<<1>>>>

\* whether the operands of the last +, -, +=, -= are incompatible
Incompatible ==
  \/ num_components(PreSrc) # num_components(Rhs)
  \/ PreSrc.basis.space # Rhs.basis.space
  \/ PreSrc.basis.argument # Rhs.basis.argument

\* C4: +, -, +=, -= on operands of different spaces, roles or component
\* counts fail, and leave every Expr as it was.
C4_IncompatibleAddFails ==
  (/\ last.op \in {"add", "sub", "iadd", "isub"}
   /\ last.arg.t \in {"expr", "handle"}
   /\ Incompatible)
  => /\ ~last.ok
     /\ Vals = last.pre

\* C4 witness: an in-place subtraction refused for the role alone.
C4_Witness ==
  /\ last.op = "isub"
  /\ last.arg.t \in {"expr", "handle"}
  /\ ~last.ok
  /\ num_components(PreSrc) = num_components(Rhs)
  /\ PreSrc.basis.space = Rhs.basis.space
  /\ PreSrc.basis.argument # Rhs.basis.argument

\* C5: an in-place multiply that fails leaves the scales, terms and indices
\* of the Expr entry for entry as they were.
C5_FailedIMulNoMutation ==
  (last.op = "imul" /\ ~last.ok) => Vals[last.src] = PreSrc

\* C6: for an Expr a of more than one component and a tuple c of dim()
\* numbers, a*c succeeds, has a's terms and indices, and row i of its scales
\* is row i of a's times c[i]; a itself is as before.
C6_TupleMulPerComponent ==
  (/\ last.op = "mul"
   /\ expr_rank(PreSrc) = 2
   /\ IsTuple(last.arg)
   /\ Len(last.arg.v) = dim(PreSrc)
   /\ \A k \in 1..Len(last.arg.v) : IsNumber(last.arg.v[k]))
  => /\ last.ok
     /\ Result.terms = PreSrc.terms
     /\ Result.indices = PreSrc.indices
     /\ Result.basis = PreSrc.basis
     /\ Len(Result.scales) = num_components(PreSrc)
     /\ \A i \in 1..num_components(PreSrc) :
          /\ Len(Result.scales[i]) = Len(PreSrc.scales[i])
          /\ \A t \in 1..Len(PreSrc.scales[i]) :
               Result.scales[i][t] = PreSrc.scales[i][t] * last.arg.v[i].v
     /\ Vals["a"] = PreSrc

\* C6 witness: a two-term vector Expr multiplied by a tuple of two
\* different numbers.
C6_Witness ==
  /\ last.op = "mul"
  /\ last.ok
  /\ IsTuple(last.arg)
  /\ expr_rank(PreSrc) = 2
  /\ num_terms(PreSrc) = 2
  /\ last.arg.v[1] # last.arg.v[2]

\* C7: for a valid component i, a[i] has one component and rank 1 and holds
\* row i of a's terms, scales and indices; extracting component 0 of an
\* extracted Expr gives the same basis, terms, scales and indices again.
C7_GetItemRow ==
  (/\ last.op = "getitem"
   /\ last.arg.v >= 0
   /\ last.arg.v < num_components(PreSrc))
  => /\ last.ok
     /\ num_components(Result) = 1
     /\ expr_rank(Result) = 1
     /\ Result.terms = <<PreSrc.terms[last.arg.v + 1]>>
     /\ Result.scales = <<PreSrc.scales[last.arg.v + 1]>>
     /\ Result.indices = <<PreSrc.indices[last.arg.v + 1]>>
     /\ Result.basis.argument = PreSrc.basis.argument
     /\ (last.srcprov = "getitem" /\ last.src = "e") => Result = PreSrc

\* C7 witness: component 0 of the extracted component 1 of a vector Expr.
C7_Witness ==
  /\ last.op = "getitem"
  /\ last.ok
  /\ last.src = "e"
  /\ last.srcprov = "getitem"
  /\ last.arg.v = 0
  /\ PreSrc.basis.index = 1
  /\ Result = PreSrc

\* the positions (from 1) of component slab i in the elements of u
Slab(u, i) ==
  {i * ShapeSize(Tail(u.shape)) + k : k \in 1..ShapeSize(Tail(u.shape))}

\* C8: for a Function u on a vector space and a component i, v = u[i] is a
\* Function of role 2, index i, on space[i]; whatever is written through u
\* or v afterwards, v's elements are those of slab i of u, and a write
\* through v changes nothing of u outside slab i.
C8_ComponentIsView ==
  (/\ ~IsNull(objs["u"])
   /\ SpaceRank(objs["u"].space) = 2
   /\ flast.vi \in 0..(SpaceNumComponents(objs["u"].space) - 1))
  => LET u == objs["u"]
         v == objs["v"]
         n == ShapeSize(Tail(u.shape))
     IN /\ ~IsNull(v)
        /\ v.cls = "Function"
        /\ v.argument = 2
        /\ v.index = flast.vi
        /\ v.space = SpaceGetItem(u.space, flast.vi)
        /\ v.shape = Tail(u.shape)
        /\ \A k \in 1..n : Elements(v)[k] = Elements(u)[flast.vi * n + k]
        /\ (flast.op = "setitem" /\ flast.src = "v") =>
             /\ Elements(v)[flast.arg.pos + 1] = flast.arg.val
             /\ \A q \in 1..ShapeSize(u.shape) :
                  q \notin Slab(u, flast.vi) => Elements(u)[q] = flast.pre["u"][q]
        /\ (flast.op = "setitem" /\ flast.src = "u") =>
             Elements(u)[flast.arg.pos + 1] = flast.arg.val

\* C8 witness: a write through u[1] that changed slab 1 of u.
C8_Witness ==
  /\ flast.op = "setitem"
  /\ flast.src = "v"
  /\ flast.vi = 1
  /\ ~IsNull(objs["u"])
  /\ Elements(objs["u"]) # flast.pre["u"]

\* C9: for an Array A that its space confirms as forward output,
\* g = A.as_function().as_array() succeeds and g has A's shape and values
\* and A's storage: no value changes in the round trip, and a later write
\* through either shows through the other.  When the space does not confirm
\* A, as_function() fails and yields no Function.
C9_RoundTrip ==
  /\ (/\ flast.op = "roundtrip"
      /\ SpaceIsForwardOutput(objs["A"].space, objs["A"]))
     => /\ flast.ok
        /\ flast.gfrom = "A"
        /\ Elements(objs["A"]) = flast.pre["A"]
  /\ flast.gfrom = "A"
     => /\ ~IsNull(objs["g"])
        /\ objs["g"].cls = "Array"
        /\ objs["g"].shape = objs["A"].shape
        /\ objs["g"].dtype = objs["A"].dtype
        /\ Elements(objs["g"]) = Elements(objs["A"])
        /\ (flast.op = "setitem" /\ flast.src \in {"A", "g"}) =>
             /\ Elements(objs["g"])[flast.arg.pos + 1] = flast.arg.val
             /\ Elements(objs["A"])[flast.arg.pos + 1] = flast.arg.val
  /\ (/\ flast.op \in {"roundtrip", "as_function"}
      /\ ~SpaceIsForwardOutput(objs["A"].space, objs["A"]))
     => /\ ~flast.ok
        /\ IsNull(objs["f"])
        /\ flast.op = "roundtrip" => IsNull(objs["g"])

\* C9 witness: a write through the round-tripped array of a vector space
\* that changed the original.
C9_Witness ==
  /\ flast.gfrom = "A"
  /\ flast.op = "setitem"
  /\ flast.src = "g"
  /\ objs["A"].space = "V"
  /\ Elements(objs["A"]) # flast.pre["A"]

\* C10: Function(space, val), val given as the second positional argument
\* or as val=, has the forward-output shape of the space (with a leading
\* component axis for more than one component) and every element equal to
\* val, or to 0 when val is omitted.
C10_FunctionFilledWithVal ==
  flast.op = "Function" =>
    /\ flast.ok
    /\ objs["u"].shape = SpaceForwardShape(flast.arg.space)
    /\ \A k \in 1..ShapeSize(objs["u"].shape) :
         Elements(objs["u"])[k] =
           IF flast.arg.form = "omitted" THEN 0 ELSE flast.arg.val

\* C11: h[i] on a BasisFunction, TestFunction or TrialFunction handle
\* succeeds only on a vector space and fails on a scalar space; when it
\* succeeds the result is a handle of h's class and role with index() = i on
\* the i-th component sub-space, and h is as it was.  Every handle reached
\* by indexing has the class and role of the handle the chain started from.
C11_HandleIndexing ==
  /\ hlast.op = "getitem" =>
        LET h == hlast.pre[hlast.src]
            r == hnd[hlast.dst]
        IN /\ hlast.ok => SpaceRank(h.space) = 2
           /\ SpaceRank(h.space) # 2 => ~hlast.ok
           /\ hlast.ok =>
                /\ r.kind = h.kind
                /\ r.argument = h.argument
                /\ r.index = hlast.i
                /\ r.space = SpaceGetItem(h.space, hlast.i)
                /\ hlast.dst # hlast.src => hnd[hlast.src] = h
           /\ ~hlast.ok => hnd = hlast.pre
  /\ \A n \in HandleNames :
       ~IsNull(hnd[n]) =>
         /\ hnd[n].kind = horig[n].kind
         /\ hnd[n].argument = horig[n].argument

\* k = h[1] on a TrialFunction over the vector space, h constructed with
\* index 0
C11_Witness ==
  /\ hlast.op = "getitem"
  /\ hlast.ok
  /\ hlast.src = "h"
  /\ hlast.dst = "k"
  /\ hlast.i = 1
  /\ hlast.pre["h"] = TrialFunction("V", 0)
  /\ hnd["k"] = TrialFunction("S", 1)
  /\ hnd["h"] = TrialFunction("V", 0)

\* the family names and the bc strings the factory knows, in lower case
FourierNames == {"fourier", "f"}

ChebyshevNames == {"chebyshev", "c"}

LegendreNames == {"legendre", "l"}

BcNames == {"dirichlet", "neumann", "biharmonic"}

\* a bc that is not None, not a 2-tuple and not one of the known names
BcUnknown(bc) ==
  /\ ~IsNone(bc)
  /\ ~(IsTuple(bc) /\ Len(bc.v) = 2)
  /\ ~(IsStr(bc) /\ Lower(bc.v) \in BcNames)

\* C12: for a family name outside fourier, f, chebyshev, c, legendre, l (in
\* any case), and for a Chebyshev or Legendre family with a bc that is not
\* None, not a 2-tuple and not dirichlet, neumann or biharmonic (in any
\* case), the factory raises NotImplementedError and has called no
\* constructor.
C12_UnknownIsNotImplemented ==
  bcall.made =>
    LET a == bcall.args
        fam == Lower(a.family)
    IN (\/ fam \notin FourierNames \cup ChebyshevNames \cup LegendreNames
        \/ fam \in ChebyshevNames \cup LegendreNames /\ BcUnknown(a.bc))
       => /\ bcall.res.outcome = "NotImplementedError"
          /\ bcall.res.calls = <<>>

\* the constructor the dispatch table gives for accepted arguments
TableCtor(a) ==
  LET fam == Lower(a.family)
      pkg == IF fam \in ChebyshevNames THEN "chebyshev" ELSE "legendre"
  IN IF fam \in FourierNames
     THEN IF DtypeChar(a.dtype) \in {"F", "D", "G"}
          THEN "fourier.bases.C2CBasis" ELSE "fourier.bases.R2CBasis"
     ELSE IF IsNone(a.bc) THEN pkg \o ".bases.Basis"
     ELSE IF IsTuple(a.bc) THEN pkg \o ".bases.ShenDirichletBasis"
     ELSE IF Lower(a.bc.v) = "dirichlet" THEN pkg \o ".bases.ShenDirichletBasis"
     ELSE IF Lower(a.bc.v) = "neumann" THEN pkg \o ".bases.ShenNeumannBasis"
     ELSE pkg \o ".bases.ShenBiharmonicBasis"

\* the keyword parameters threaded to the constructor
TableKeys(a) ==
  LET fam == Lower(a.family)
  IN {"plan"}
     \cup (IF ~IsNone(a.domain) THEN {"domain"} ELSE {})
     \cup (IF fam \in FourierNames THEN {"padding_factor", "dealias_direct"} ELSE {})
     \cup (IF fam \notin FourierNames /\ ~IsNone(a.quad) THEN {"quad"} ELSE {})
     \cup (IF fam \in LegendreNames /\ ~IsNone(a.scaled) THEN {"scaled"} ELSE {})
     \cup (IF fam \notin FourierNames /\ IsTuple(a.bc) THEN {"bc"} ELSE {})

\* C13: when the factory returns it has called exactly one constructor, the
\* one of the dispatch table (Fourier: complex-to-complex for a complex
\* dtype character, real-to-complex otherwise; Chebyshev, Legendre: plain
\* for bc None, Dirichlet for a 2-tuple, the named variant for a name), with
\* N and exactly these keywords, each with the value of the argument: plan;
\* domain when given; padding_factor and dealias_direct for Fourier only;
\* quad when given, in the family's allowed set, for Chebyshev and Legendre;
\* scaled when given for Legendre; bc for a 2-tuple only.
C13_DispatchTable ==
  (bcall.made /\ bcall.res.outcome = "returned") =>
    LET a == bcall.args
        c == bcall.res.calls
    IN /\ Len(c) = 1
       /\ c[1].ctor = TableCtor(a)
       /\ c[1].N = a.N
       /\ DOMAIN c[1].par = TableKeys(a)
       /\ \A k \in DOMAIN c[1].par : c[1].par[k] = a[k]
       /\ "quad" \in DOMAIN c[1].par =>
            a.quad.v \in (IF Lower(a.family) \in ChebyshevNames
                          THEN {"GC", "GL"} ELSE {"LG", "GL"})

\* Basis(8, 'LEGENDRE', bc=(0, 1), quad='LG', domain=(0, 1), scaled=True)
\* returned a legendre ShenDirichletBasis
C13_Witness ==
  /\ bcall.made
  /\ bcall.res.outcome = "returned"
  /\ bcall.args.family = "LEGENDRE"
  /\ bcall.args.bc = Tup(<<Num(0), Num(1)>>)
  /\ bcall.args.quad = StrOf("LG")
  /\ bcall.args.domain = Tup(<<Num(0), Num(1)>>)
  /\ bcall.args.scaled = Bool(TRUE)
  /\ bcall.res.calls[1].ctor = "legendre.bases.ShenDirichletBasis"
  /\ bcall.res.calls[1].par["bc"] = Tup(<<Num(0), Num(1)>>)

\* C14: when e was returned by a non-in-place operation on a (e = a[i],
\* e = a * x, e = a + b, e = a - b, e = -a), every in-place operation
\* (*=, +=, -=) on e leaves the terms, scales and indices of a as they were,
\* and every in-place operation on a leaves those of e as they were.
C14_ResultIndependent ==
  (last.op \in InPlaceOps /\ esrc = "a") =>
    Vals[OtherSlot(last.src)] = last.pre[OtherSlot(last.src)]

====
